---- MODULE Spec2Model ----
(***************************************************************************)
(* Model of telegram_bot_lambda.py: the webhook handler lambda_handler,    *)
(* the service-message step handle_service_message and the diagnostic      *)
(* analyze_message_structure.                                              *)
(*                                                                         *)
(* One call of lambda_handler runs without suspension up to its single     *)
(* blocking operation, requests.post (line 193); the call is therefore two *)
(* steps: Invoke (lines 264-397 up to line 193) and the return of          *)
(* requests.post with the rest of the handler (lines 195-248, 396-397).    *)
(*                                                                         *)
(* Values outside the source file: python-telegram-bot (Bot, Update) and   *)
(* the HTTP endpoint.  What Update.de_json does to a field the payload     *)
(* does not carry depends on the library: it either leaves the attribute   *)
(* None, or stores an empty sequence / False for sequence and boolean      *)
(* attributes.  Both are modelled (variable normalises).                   *)
(***************************************************************************)
EXTENDS Integers, Sequences, FiniteSets, TLC

VARIABLES
    token,       \* BOT_TOKEN, read once at import (line 16)
    normalises,  \* how the installed Update.de_json fills absent attributes
    update,      \* the update the platform redelivers (redelivery runs only)
    store,       \* messages that exist on the platform: <<chat_id, message_id>>
    calls        \* one record per invocation of lambda_handler

vars == <<token, normalises, update, store, calls>>

----------------------------------------------------------------------------
(* Bounds *)

\* Number of deliveries of the same update in a redelivery run.
NumDeliveries == 2

----------------------------------------------------------------------------
(* Field tables *)

\* service_checks of handle_service_message (lines 143-160).
ServiceChecks ==
    {"new_chat_members", "left_chat_member", "new_chat_title", "new_chat_photo",
     "delete_chat_photo", "group_chat_created", "supergroup_chat_created",
     "channel_chat_created", "pinned_message", "proximity_alert_triggered",
     "forum_topic_created", "forum_topic_edited", "forum_topic_closed",
     "forum_topic_reopened", "migrate_to_chat_id", "migrate_from_chat_id"}

\* service_fields of analyze_message_structure (lines 50-75).
ServiceFields ==
    ServiceChecks \cup
    {"successful_payment", "connected_website", "passport_data",
     "video_chat_started", "video_chat_ended", "video_chat_participants_invited",
     "video_chat_scheduled", "web_app_data"}

\* Fields whose value is a list (lines 144, 147) or a boolean (lines 148-151).
ListFields == {"new_chat_members", "new_chat_photo"}

BoolFields ==
    {"delete_chat_photo", "group_chat_created", "supergroup_chat_created",
     "channel_chat_created"}

\* The message-like keys of an update, in the order of line 106.
Variants == <<"message", "edited_message", "channel_post", "edited_channel_post">>

VariantNames == {Variants[i] : i \in 1..Len(Variants)}

----------------------------------------------------------------------------
(* JSON values of the payload *)

\* A service field of a JSON message: the key is absent, null, present with a
\* falsy value (false, [], "", 0) or present with a populated value (true, a
\* non-empty list, a non-empty string, an object).
JsonVals == {"absent", "null", "falsy", "populated"}

\* The service fields of a JSON message: a function from the keys present.
NoMarkers == <<>>

Marker(f, x) == f :> x

\* message_data[f], "absent" when `f in message_data` is false.
MarkerOf(markers, f) == IF f \in DOMAIN markers THEN markers[f] ELSE "absent"

\* An identifier is {} (null or missing) or {n}.
NoId == {}

AbsentSlot ==
    [kind |-> "absent", date |-> FALSE, chat |-> "absent", chat_id |-> NoId,
     from |-> "absent", message_id |-> NoId, markers |-> NoMarkers]

\* The key is present with a value that is no JSON object (null, a number, a
\* string, a list).
NonDictSlot == [AbsentSlot EXCEPT !.kind = "nondict"]

DictSlot(date, chat, chat_id, from, message_id, markers) ==
    [kind |-> "dict", date |-> date, chat |-> chat,
     chat_id |-> IF chat = "dict" THEN chat_id ELSE NoId,
     from |-> from, message_id |-> message_id, markers |-> markers]

\* The message-like keys of a payload: a function from the keys present.
NoSlots == <<>>

\* body[v], AbsentSlot when `v in body` is false.
SlotOf(payload, v) ==
    IF v \in DOMAIN payload.slots THEN payload.slots[v] ELSE AbsentSlot

NoPayload == [slots |-> NoSlots, other |-> FALSE, dejson |-> "none"]

----------------------------------------------------------------------------
(* Update.de_json (line 371) and the attributes handle_service_message reads *)

\* The attribute Update.de_json gives a Message for JSON value v of field f.
\* A present, non-null value is kept.  For an absent or null one the attribute
\* is None, except that a normalising library stores an empty sequence for a
\* sequence field and False for a boolean field.
DeJsonAttr(f, v, norm) ==
    IF v \in {"absent", "null"}
    THEN IF norm /\ f \in ListFields \cup BoolFields THEN "falsy" ELSE "None"
    ELSE v

NoneMessage ==
    [none |-> TRUE, chat |-> "None", chat_id |-> NoId, message_id |-> NoId,
     attrs |-> [f \in ServiceFields |-> "None"]]

\* The Message object of one slot of a decoded update.
DeJsonMessage(slot, norm) ==
    IF slot.kind # "dict" THEN NoneMessage
    ELSE [none |-> FALSE,
          chat |-> IF slot.chat = "dict" THEN "obj" ELSE "None",
          chat_id |-> slot.chat_id,
          message_id |-> slot.message_id,
          attrs |-> [f \in ServiceFields |-> DeJsonAttr(f, MarkerOf(slot.markers, f), norm)]]

\* Update.de_json(body, bot) when it returns an Update.
DeJson(payload, norm) ==
    [v \in VariantNames |-> DeJsonMessage(SlotOf(payload, v), norm)]

\* Mutant of FirstMessage: the last message-like attribute that is not None.
RECURSIVE LastFrom(_, _)
LastFrom(upd, i) ==
    IF i < 1 THEN NoneMessage
    ELSE IF ~upd[Variants[i]].none THEN upd[Variants[i]]
    ELSE LastFrom(upd, i - 1)

LastMessage(upd) == LastFrom(upd, Len(Variants))

\* update.message or update.edited_message or update.channel_post or
\* update.edited_channel_post (line 106): the first that is not None.
RECURSIVE FirstFrom(_, _)
FirstFrom(upd, i) ==
    IF i > Len(Variants) THEN NoneMessage
    ELSE IF ~upd[Variants[i]].none THEN upd[Variants[i]]
    ELSE FirstFrom(upd, i + 1)

FirstMessage(upd) == FirstFrom(upd, 1)

\* bool(x) of an identifier: None and 0 are falsy.
Truthy(id) == id # NoId /\ id # {0}

\* found_service_types (lines 163-167).
FoundServiceTypes(message) ==
    {f \in ServiceChecks : message.attrs[f] # "None"}

\* is_service_message (line 170).
IsServiceMessage(message) ==
    \E f \in ServiceChecks : message.attrs[f] # "None"

\* found_service_fields, the return value of analyze_message_structure
\* (lines 77-82, 98).
FoundServiceFields(slot) ==
    {f \in ServiceFields : MarkerOf(slot.markers, f) \notin {"absent", "null"}}

\* Whether analyze_message_structure(message_data, ...) raises: `field in
\* message_data` on None or a number (line 34), chat_info.get on a chat that
\* is no object (lines 36-37), from_info.get on a sender that is no object
\* (lines 40-41).
AnalyzeRaises(slot) ==
    \/ slot.kind = "nondict"
    \/ slot.kind = "dict" /\ (slot.chat = "nondict" \/ slot.from = "nondict")

\* Whether the diagnostic part of lambda_handler (lines 319-360) raises on an
\* object payload: analyze_message_structure on a message-like key (line 331),
\* msg.get on a message that is no object (lines 348-352), .get on another
\* message-like key that is no object (line 360).
DiagnosticsRaise(payload) ==
    \E v \in VariantNames :
        \/ AnalyzeRaises(SlotOf(payload, v))
        \/ SlotOf(payload, v).kind = "nondict"

\* The required-field check of lines 363-367.
MissingDate(payload) ==
    /\ SlotOf(payload, "message").kind # "absent"
    /\ \/ SlotOf(payload, "message").kind # "dict"
       \/ ~SlotOf(payload, "message").date

----------------------------------------------------------------------------
(* handle_service_message up to the delete request (lines 101-193) *)

DeleteRequest(message) ==
    [chat_id |-> message.chat_id, message_id |-> message.message_id]

\* What handle_service_message does before requests.post: the requests it
\* sends (none or one) and whether it evaluated is_service_message.
HandleServiceMessage(upd) ==
    LET message == FirstMessage(upd) IN
    IF message.none                                   \* lines 108-125
    THEN [sent |-> <<>>, classified |-> "n/a"]
    ELSE IF message.chat = "None"                     \* lines 128-130
    THEN [sent |-> <<>>, classified |-> "n/a"]
    ELSE IF message.chat_id = NoId                    \* lines 132-134
    THEN [sent |-> <<>>, classified |-> "n/a"]
    ELSE IF ~IsServiceMessage(message)                \* lines 170-172, 249-250
    THEN [sent |-> <<>>, classified |-> "no"]
    ELSE IF ~Truthy(message.message_id)               \* lines 177-179
    THEN [sent |-> <<>>, classified |-> "yes"]
    ELSE [sent |-> <<DeleteRequest(message)>>, classified |-> "yes"]

----------------------------------------------------------------------------
(* lambda_handler up to the delete request (lines 264-388) *)

\* BOT_TOKEN is unset (None or ""), a value Bot(token=...) raises on, or a
\* value Bot accepts.
Tokens == {"unset", "rejected", "accepted"}

\* Bot(token=BOT_TOKEN), line 274, raises.
BotRaises(tok) == tok = "rejected"

Returned(status, steps) ==
    [pc |-> "returned", status |-> status, steps |-> steps, sent |-> <<>>,
     classified |-> "n/a"]

\* The exception left lambda_handler.
Propagated(steps) ==
    [pc |-> "raised", status |-> 0, steps |-> steps, sent |-> <<>>,
     classified |-> "n/a"]

\* Lines 381-388 and 396-397, given the decoded update.
RunProcessing(upd, steps) ==
    LET h == HandleServiceMessage(upd)
        st == steps \cup (IF h.classified = "n/a" THEN {} ELSE {"classify"})
    IN  IF h.sent = <<>>
        THEN [pc |-> "returned", status |-> 200, steps |-> st, sent |-> <<>>,
              classified |-> h.classified]
        ELSE [pc |-> "awaiting", status |-> 0, steps |-> st \cup {"delete"},
              sent |-> h.sent, classified |-> h.classified]

\* Lines 295-388 for a body that is (or parsed to) a JSON object.
HandleObject(payload, norm, steps) ==
    IF DiagnosticsRaise(payload)                      \* lines 319-360, 390-394
    THEN Returned(500, steps)
    ELSE IF MissingDate(payload)                      \* lines 363-367
    THEN Returned(400, steps)
    ELSE IF payload.dejson = "raise"                  \* lines 370-375
    THEN Returned(500, steps \cup {"de_json"})
    ELSE IF payload.dejson = "none"                   \* lines 377-379
    THEN Returned(400, steps \cup {"de_json"})
    ELSE RunProcessing(DeJson(payload, norm), steps \cup {"de_json"})

\* Lines 277-299 and on: the body of the try statement.
HandleEvent(ev, norm, steps) ==
    IF ev.shape # "dict"                              \* line 282, 390-394
    THEN Returned(500, steps)
    ELSE IF ev.body = "absent"                        \* lines 283-285
    THEN Returned(400, steps)
    ELSE IF ev.body = "notjson"                       \* lines 288-293
    THEN Returned(400, steps \cup {"parse"})
    ELSE IF ev.body = "nonobject"                     \* line 299, 390-394
    THEN Returned(500, steps \cup {"parse"})
    ELSE HandleObject(ev.payload, norm, steps \cup {"parse"})

\* Mutant of LambdaHandler: the token check of lines 269-271 is missing.
LambdaHandlerTokenUnchecked(tok, norm, ev) ==
    IF BotRaises(tok)
    THEN Propagated({"bot"})
    ELSE HandleEvent(ev, norm, {"bot"})

\* lambda_handler(event, context) up to its return or to requests.post.
LambdaHandler(tok, norm, ev) ==
    IF tok = "unset"                                  \* lines 269-271
    THEN Returned(500, {})
    ELSE IF BotRaises(tok)                            \* line 274
    THEN Propagated({"bot"})
    ELSE HandleEvent(ev, norm, {"bot"})

----------------------------------------------------------------------------
(* The return of requests.post and the triage of lines 195-248 *)

\* The three texts the triage looks for (lines 208-213, 229-234).
ChatNotFound == "chat not found"
CantBeDeleted == "message can't be deleted"
ToDeleteNotFound == "message to delete not found"

Phrases == {ChatNotFound, CantBeDeleted, ToDeleteNotFound}

\* A description: the phrases it holds, and whether it holds them in another
\* letter case than the lower case of the source's literals.
Text(phrases, cased) == [phrases |-> phrases, cased |-> cased]

\* str.lower().
Lower(text) == [text EXCEPT !.cased = FALSE]

\* `phrase in text`.
Contains(phrase, text) == ~text.cased /\ phrase \in text.phrases

\* 'Unknown error', the default of result.get('description', ...).
UnknownError == Text({}, TRUE)

NoText == Text({}, FALSE)

\* The outcome of one call of requests.post: an HTTP response (status and
\* body) or an exception of requests (timeout, connection error).
HttpResponse(status, shape, desc, code) ==
    [kind |-> "http", status |-> status, shape |-> shape,
     desc |-> IF shape = "error" THEN desc ELSE NoText,
     code |-> IF shape = "error" THEN code ELSE NoId]

RequestFault(kind) ==
    [kind |-> kind, status |-> 0, shape |-> "notjson", desc |-> NoText,
     code |-> NoId]

NoResponse == RequestFault("none")

\* result.get('error_code', default).
ErrorCode(code, default) == IF code = NoId THEN default ELSE CHOOSE n \in code : TRUE

\* Mutant of Triage: the descriptions are looked at whatever the error code.
TriageAnyCode(description, error_code) ==
    IF Contains(ChatNotFound, Lower(description)) THEN "ChatGone"
    ELSE IF Contains(CantBeDeleted, Lower(description)) THEN "Forbidden"
    ELSE IF Contains(ToDeleteNotFound, Lower(description)) THEN "AlreadyGone"
    ELSE "ApiError"

\* Mutant of Triage: the branch of lines 213-214 and 234-235 is missing.
TriageWithoutAlreadyGone(description, error_code) ==
    IF error_code = 400
    THEN IF Contains(ChatNotFound, Lower(description)) THEN "ChatGone"
         ELSE IF Contains(CantBeDeleted, Lower(description)) THEN "Forbidden"
         ELSE "ApiError"
    ELSE "ApiError"

\* Lines 207-218 and 228-239: the branch taken for an API error.
Triage(description, error_code) ==
    IF error_code = 400
    THEN IF Contains(ChatNotFound, Lower(description)) THEN "ChatGone"
         ELSE IF Contains(CantBeDeleted, Lower(description)) THEN "Forbidden"
         ELSE IF Contains(ToDeleteNotFound, Lower(description)) THEN "AlreadyGone"
         ELSE "ApiError"
    ELSE "ApiError"

\* Lines 198-218: the response has status 200.
Outcome200(resp) ==
    IF resp.shape = "notjson" THEN "TransportError"   \* line 199 raises; 245-248
    ELSE IF resp.shape = "ok" THEN "Deleted"          \* lines 200-201
    ELSE IF resp.shape = "nodesc"                     \* lines 203-204 defaults
    THEN Triage(UnknownError, ErrorCode(resp.code, 0))
    ELSE Triage(resp.desc, ErrorCode(resp.code, 0))

\* Lines 219-243: any other status.
OutcomeOther(resp) ==
    IF resp.shape = "notjson" THEN "TransportError"   \* lines 242-243
    ELSE IF resp.shape = "error"                      \* lines 223-239
    THEN Triage(resp.desc, ErrorCode(resp.code, resp.status))
    ELSE "TransportError"                             \* lines 240-241

\* The branch of lines 195-248 that response resp takes, named as the
\* outcome it stands for.
DeleteOutcome(resp) ==
    IF resp.kind # "http" THEN "TransportError"       \* lines 245-246
    ELSE IF resp.status = 200 THEN Outcome200(resp)
    ELSE OutcomeOther(resp)

\* Mutant of DeleteFaultPropagates: the except clauses of lines 245-248 are
\* missing, and an exception of requests.post reaches lambda_handler.
RequestFaultPropagates(resp) == resp.kind # "http"

\* Whether a fault of the delete step leaves handle_service_message: the
\* except clauses of lines 245-248 catch every exception.
DeleteFaultPropagates(resp) == FALSE

\* Lines 382-388 and 396-397 once requests.post has returned or raised.
AfterDelete(call, resp) ==
    [call EXCEPT !.pc = "returned",
                 !.resp = resp,
                 !.outcome = DeleteOutcome(resp),
                 !.status = IF DeleteFaultPropagates(resp) THEN 500 ELSE 200]

----------------------------------------------------------------------------
(* Inputs *)

Event(shape, body, payload) ==
    [shape |-> shape, body |-> body,
     payload |-> IF shape = "dict" /\ body = "object" THEN payload ELSE NoPayload]

ObjectEvent(slots, other, dejson) ==
    Event("dict", "object", [slots |-> slots, other |-> other, dejson |-> dejson])

OneSlot(v, slot) == v :> slot

\* Marker tables with at most one key present.
SingleMarkers ==
    {NoMarkers} \cup
    {Marker(f, x) : f \in ServiceFields, x \in JsonVals \ {"absent"}}

\* A few marker tables for the inputs that vary the rest of the message.
FewMarkers ==
    {NoMarkers,
     Marker("new_chat_title", "populated"),
     Marker("delete_chat_photo", "falsy"),
     Marker("successful_payment", "populated")}

ChatIds == {NoId, {0}, {100}}
MessageIds == {NoId, {0}, {5}}

\* A well-formed message of chat 100 with message id 5.
WellFormed(markers) == DictSlot(TRUE, "dict", {100}, "dict", {5}, markers)

\* Well-formed updates with one `message`, over every single-marker table.
MarkerEvents ==
    {ObjectEvent(OneSlot("message", WellFormed(m)), FALSE, "update") :
        m \in SingleMarkers}

\* Messages that vary every other part.
VariedSlots ==
    {NonDictSlot} \cup
    {DictSlot(d, c, ci, fr, mi, m) :
        d \in BOOLEAN, c \in {"absent", "nondict", "dict"}, ci \in ChatIds,
        fr \in {"dict", "nondict"}, mi \in MessageIds, m \in FewMarkers}

\* Updates with one message-like key, the decoder's three results, and updates
\* with no message-like key (a callback query, or nothing recognised).
EnvelopeEvents ==
    {ObjectEvent(OneSlot(v, sl), FALSE, dj) :
        v \in VariantNames, sl \in VariedSlots, dj \in {"update", "none", "raise"}}
    \cup
    {ObjectEvent(NoSlots, o, dj) :
        o \in BOOLEAN, dj \in {"update", "none", "raise"}}

\* Updates with two message-like keys, in either order: one message of chat 100
\* (message 5) and one of chat 200 (message 9).
PairSlots(cid, mid) ==
    {DictSlot(TRUE, "dict", {cid}, "dict", {mid}, NoMarkers),
     DictSlot(TRUE, "dict", {cid}, "dict", {mid},
              Marker("new_chat_title", "populated")),
     DictSlot(TRUE, "absent", NoId, "dict", {mid},
              Marker("new_chat_title", "populated"))}

PairEvents ==
    {ObjectEvent(OneSlot(Variants[i], a) @@ OneSlot(Variants[j], b),
                 FALSE, "update") :
        <<i, j>> \in {ij \in (1..Len(Variants)) \X (1..Len(Variants)) : ij[1] # ij[2]},
        a \in PairSlots(100, 5), b \in PairSlots(200, 9)}

\* Events whose body is no JSON object, and an event that is no dict.
MalformedEvents ==
    {Event("dict", b, NoPayload) : b \in {"absent", "notjson", "nonobject"}}
    \cup {Event("nondict", "absent", NoPayload)}

Events == MarkerEvents \cup EnvelopeEvents \cup PairEvents \cup MalformedEvents

NoEvent == Event("nondict", "absent", NoPayload)

Texts ==
    {Text(ps, c) :
        ps \in {{}, {ChatNotFound}, {CantBeDeleted}, {ToDeleteNotFound},
                {ChatNotFound, CantBeDeleted}, {CantBeDeleted, ToDeleteNotFound}},
        c \in BOOLEAN}

Statuses == {200, 400, 403}

Responses ==
    {HttpResponse(st, sh, NoText, NoId) :
        st \in Statuses, sh \in {"notjson", "nodesc", "ok"}}
    \cup
    {HttpResponse(st, "error", d, c) :
        st \in Statuses, d \in Texts, c \in {NoId, {400}, {403}}}
    \cup
    {RequestFault(k) : k \in {"timeout", "connection"}}

\* The updates a redelivery run delivers: well-formed service messages.
ServiceUpdates ==
    {ObjectEvent(OneSlot(v, WellFormed(Marker(f, "populated"))),
                 FALSE, "update") :
        v \in VariantNames,
        f \in {"new_chat_members", "left_chat_member", "pinned_message"}}

----------------------------------------------------------------------------
(* State and steps *)

ReadyCall ==
    [pc |-> "ready", event |-> NoEvent, status |-> 0, steps |-> {},
     sent |-> <<>>, classified |-> "n/a", resp |-> NoResponse,
     outcome |-> "none"]

\* Call i enters lambda_handler with event ev.
Invoke(i, ev) ==
    /\ calls[i].pc = "ready"
    /\ LET r == LambdaHandler(token, normalises, ev) IN
       calls' = [calls EXCEPT ![i] =
                    [@ EXCEPT !.pc = r.pc, !.event = ev, !.status = r.status,
                              !.steps = r.steps, !.sent = r.sent,
                              !.classified = r.classified]]
    /\ UNCHANGED <<token, normalises, update, store>>

\* requests.post of call i returns resp, or raises.
Respond(i, resp) ==
    /\ calls[i].pc = "awaiting"
    /\ calls' = [calls EXCEPT ![i] = AfterDelete(@, resp)]
    /\ UNCHANGED <<token, normalises, update, store>>

Init ==
    /\ token \in Tokens
    /\ normalises \in BOOLEAN
    /\ update = NoEvent
    /\ store = {}
    /\ calls = [i \in {1} |-> ReadyCall]

\* A webhook delivery with any event.
Receive(i) ==
    /\ calls[i].pc = "ready"
    /\ \E ev \in Events : Invoke(i, ev)

\* The endpoint answers, or the request fails, in any way.
Answer(i) ==
    /\ calls[i].pc = "awaiting"
    /\ \E resp \in Responses : Respond(i, resp)

Next ==
    \/ Receive(1)
    \/ Answer(1)

Spec == Init /\ [][Next]_vars

----------------------------------------------------------------------------
(* Redelivery: the platform delivers the same update several times, the     *)
(* deliveries run concurrently, and the endpoint answers from the state of  *)
(* the chat.                                                                *)

MessageKey(request) == <<request.chat_id, request.message_id>>

\* The endpoint's answer to the deletion of a message that is not there.
NotFoundAnswer ==
    HttpResponse(400, "error", Text({ToDeleteNotFound}, FALSE), {400})

DeletedAnswer == HttpResponse(200, "ok", NoText, NoId)

\* One delivery of the update.
Deliver(i) == Invoke(i, update)

\* The endpoint deletes the message of call i's request and says so.
PlatformDeletes(i) ==
    /\ calls[i].pc = "awaiting"
    /\ MessageKey(calls[i].sent[1]) \in store
    /\ store' = store \ {MessageKey(calls[i].sent[1])}
    /\ calls' = [calls EXCEPT ![i] = AfterDelete(@, DeletedAnswer)]
    /\ UNCHANGED <<token, normalises, update>>

\* The message of call i's request is gone already.
PlatformNotFound(i) ==
    /\ calls[i].pc = "awaiting"
    /\ MessageKey(calls[i].sent[1]) \notin store
    /\ calls' = [calls EXCEPT ![i] = AfterDelete(@, NotFoundAnswer)]
    /\ UNCHANGED <<token, normalises, update, store>>

\* The request of call i times out (line 193, timeout=10); the endpoint may
\* or may not have carried it out.
RequestTimesOut(i) ==
    /\ calls[i].pc = "awaiting"
    /\ store' \in {store, store \ {MessageKey(calls[i].sent[1])}}
    /\ calls' = [calls EXCEPT ![i] = AfterDelete(@, RequestFault("timeout"))]
    /\ UNCHANGED <<token, normalises, update>>

Deliveries == 1..NumDeliveries

InitRedelivery ==
    /\ token = "accepted"
    /\ normalises \in BOOLEAN
    /\ update \in ServiceUpdates
    /\ store = {<<{100}, {5}>>}
    /\ calls = [i \in Deliveries |-> ReadyCall]

NextRedelivery ==
    \E i \in Deliveries :
        \/ Deliver(i)
        \/ PlatformDeletes(i)
        \/ PlatformNotFound(i)
        \/ RequestTimesOut(i)

SpecRedelivery == InitRedelivery /\ [][NextRedelivery]_vars

----------------------------------------------------------------------------
(* Properties of one call (specification Spec) *)

TheCall == calls[1]

\* The JSON message handle_service_message works on: the first message-like
\* key of the payload that is present.
RECURSIVE SlotFrom(_, _)
SlotFrom(payload, i) ==
    IF i > Len(Variants) THEN AbsentSlot
    ELSE IF SlotOf(payload, Variants[i]).kind # "absent"
    THEN SlotOf(payload, Variants[i])
    ELSE SlotFrom(payload, i + 1)

SelectedSlot(ev) == SlotFrom(ev.payload, 1)

\* The call went through classification: the update was decoded and its
\* message has a chat with an id.
Classifying(c) == c.pc # "ready" /\ c.classified # "n/a"

PopulatedFields(slot) ==
    {f \in ServiceFields : MarkerOf(slot.markers, f) = "populated"}

\* C1: a message whose service fields are all absent, null, false or empty is
\* not classified as a service message and no delete request is issued for it.
C1_FalsyMarkersNotService ==
    (Classifying(TheCall) /\ PopulatedFields(SelectedSlot(TheCall.event)) = {})
        => (TheCall.classified = "no" /\ TheCall.sent = <<>>)

\* C2: a message with exactly one populated field of the recognised set (the
\* fields of analyze_message_structure, successful_payment among them) is
\* classified as a service message.
C2_OnePopulatedIsService ==
    (Classifying(TheCall)
        /\ Cardinality(PopulatedFields(SelectedSlot(TheCall.event))) = 1)
        => TheCall.classified = "yes"

\* C3: a call that sent its delete request returns status 200 whatever the
\* request's outcome (ok, an API error, a non-200 status, a timeout, a
\* connection error).
C3_DeleteOutcomeAcked ==
    (TheCall.pc = "returned" /\ "delete" \in TheCall.steps)
        => TheCall.status = 200

C3_Witness ==
    /\ TheCall.pc = "returned"
    /\ TheCall.outcome = "ChatGone"
    /\ TheCall.status = 200

\* C4: with no credential configured every call returns 500 without parsing
\* the body, classifying a message or sending a delete request.
C4_NoTokenIs500 ==
    (token = "unset" /\ TheCall.pc # "ready")
        => /\ TheCall.pc = "returned"
           /\ TheCall.status = 500
           /\ TheCall.steps = {}
           /\ TheCall.sent = <<>>

C4_Witness ==
    /\ token = "unset"
    /\ TheCall.pc = "returned"
    /\ TheCall.status = 500
    /\ TheCall.event \in MarkerEvents
    /\ PopulatedFields(SelectedSlot(TheCall.event)) = {"new_chat_members"}

\* C5: a payload whose `message` lacks `date` gets status 400 and no delete
\* request, whatever else the message carries.
C5_MissingDateIs400 ==
    (/\ token = "accepted"
     /\ TheCall.pc # "ready"
     /\ TheCall.event.shape = "dict"
     /\ TheCall.event.body = "object"
     /\ SlotOf(TheCall.event.payload, "message").kind = "dict"
     /\ ~SlotOf(TheCall.event.payload, "message").date)
        => (TheCall.pc = "returned" /\ TheCall.status = 400 /\ TheCall.sent = <<>>)

\* C6: a malformed body (absent or empty, not JSON, or JSON that is no object)
\* gets status 400 and no delete request.
C6_MalformedBodyIs400 ==
    (/\ token = "accepted"
     /\ TheCall.pc # "ready"
     /\ TheCall.event.shape = "dict"
     /\ TheCall.event.body \in {"absent", "notjson", "nonobject"})
        => (TheCall.pc = "returned" /\ TheCall.status = 400 /\ TheCall.sent = <<>>)

\* C7: no fault of any step of lambda_handler, bot initialisation included,
\* reaches the caller: every call ends by returning 200, 400 or 500.
C7_NoFaultPropagates ==
    /\ TheCall.pc # "raised"
    /\ TheCall.pc = "returned" => TheCall.status \in {200, 400, 500}


\* The outcome the description alone stands for: the first of the three texts
\* it holds, in any letter case.
ByDescription(text) ==
    IF ChatNotFound \in text.phrases THEN "ChatGone"
    ELSE IF CantBeDeleted \in text.phrases THEN "Forbidden"
    ELSE IF ToDeleteNotFound \in text.phrases THEN "AlreadyGone"
    ELSE "ApiError"

\* The error code the triage works with: the body's error_code, and without
\* one 0 for an HTTP 200 response and the HTTP status for any other.
EffectiveCode(resp) ==
    IF resp.code # NoId THEN CHOOSE n \in resp.code : TRUE
    ELSE IF resp.status = 200 THEN 0
    ELSE resp.status

\* What C8 says of the responses that are no API error with a description.
OtherResponses(c) ==
    /\ (c.resp.status = 200 /\ c.resp.shape = "ok") => c.outcome = "Deleted"
    /\ (c.resp.status = 200 /\ c.resp.shape = "nodesc") => c.outcome = "ApiError"
    /\ (c.resp.status # 200 /\ c.resp.shape # "error")
           => c.outcome = "TransportError"

\* C8 as stated: the description alone decides the outcome of an API error,
\* for every value of error_code.
C8_DescriptionDecides ==
    (TheCall.pc = "returned" /\ TheCall.resp.kind = "http")
        => /\ TheCall.resp.shape = "error"
                 => TheCall.outcome = ByDescription(TheCall.resp.desc)
           /\ OtherResponses(TheCall)

\* C8, amended: the description decides the outcome of an API error whose
\* error code is 400; with any other error code the outcome is ApiError.
C8_DescriptionDecidesFor400 ==
    (TheCall.pc = "returned" /\ TheCall.resp.kind = "http")
        => /\ TheCall.resp.shape = "error"
                 => TheCall.outcome =
                        IF EffectiveCode(TheCall.resp) = 400
                        THEN ByDescription(TheCall.resp.desc)
                        ELSE "ApiError"
           /\ OtherResponses(TheCall)

C8_Witness ==
    /\ TheCall.pc = "returned"
    /\ TheCall.resp.kind = "http"
    /\ TheCall.resp.status = 403
    /\ TheCall.resp.shape = "error"
    /\ TheCall.resp.code = {400}
    /\ TheCall.resp.desc = Text({CantBeDeleted, ToDeleteNotFound}, TRUE)
    /\ TheCall.outcome = "Forbidden"

\* The one request C9 allows: for the selected message, when it was classified
\* as a service message and idOk holds of its message id.
AllowedRequests(c, idOk) ==
    LET slot == SelectedSlot(c.event) IN
    IF c.classified = "yes" /\ slot.chat_id # NoId /\ idOk
    THEN <<[chat_id |-> slot.chat_id, message_id |-> slot.message_id]>>
    ELSE <<>>

\* C9 as stated: a call sends exactly one delete request, for the first
\* populated variant, when that message is classified as a service message
\* with non-null chat id and message id, and none otherwise; never a second.
C9_OneRequestNonNullIds ==
    TheCall.pc # "ready"
        => TheCall.sent =
               AllowedRequests(TheCall,
                               SelectedSlot(TheCall.event).message_id # NoId)

\* C9, amended: the message id must be non-null and non-zero.
C9_OneRequestTruthyId ==
    TheCall.pc # "ready"
        => TheCall.sent =
               AllowedRequests(TheCall,
                               SelectedSlot(TheCall.event).message_id
                                   \notin {NoId, {0}})

C9_Witness ==
    /\ TheCall.pc = "returned"
    /\ TheCall.outcome = "TransportError"
    /\ TheCall.resp.kind = "timeout"
    /\ SlotOf(TheCall.event.payload, "message").kind = "absent"
    /\ SlotOf(TheCall.event.payload, "edited_message").chat_id = {200}
    /\ SlotOf(TheCall.event.payload, "channel_post").chat_id = {100}
    /\ PopulatedFields(SlotOf(TheCall.event.payload, "channel_post")) # {}
    /\ TheCall.sent = <<[chat_id |-> {200}, message_id |-> {9}]>>

----------------------------------------------------------------------------
(* Properties of redelivery (specification SpecRedelivery) *)

\* C10: however the deliveries of one service-message update interleave, each
\* returns 200; each sends the same single request; at most one deletes the
\* message, and a delivery answered "message to delete not found" ends as
\* AlreadyGone, never as an error.
C10_RedeliverySafe ==
    /\ \A i \in DOMAIN calls :
          /\ calls[i].pc # "raised"
          /\ calls[i].pc # "ready"
                => calls[i].sent = <<[chat_id |-> {100}, message_id |-> {5}]>>
          /\ calls[i].pc = "returned"
                => /\ calls[i].status = 200
                   /\ calls[i].outcome \in {"Deleted", "AlreadyGone", "TransportError"}
                   /\ calls[i].resp = NotFoundAnswer
                         => calls[i].outcome = "AlreadyGone"
    /\ Cardinality({i \in DOMAIN calls : calls[i].outcome = "Deleted"}) <= 1
    /\ (\E i \in DOMAIN calls : calls[i].outcome = "Deleted") => store = {}

C10_Witness ==
    /\ calls[1].pc = "returned" /\ calls[1].outcome = "AlreadyGone"
    /\ calls[2].pc = "returned" /\ calls[2].outcome = "Deleted"
    /\ calls[1].status = 200 /\ calls[2].status = 200

====
